---- MODULE Spec2Model ----
(***************************************************************************)
(* A model of the YouTube client class of youtube_unofficial/__init__.py:  *)
(* the continuation walkers (get_playlist_info, get_history_info,          *)
(* _community_history), the retry loop of get_history_info, the playlist   *)
(* and history mutators and the SAPISIDHASH authorization header.          *)
(*                                                                         *)
(* One client call is active at a time (the class is single threaded).     *)
(* The server is the environment: the outcome of every request (a page or  *)
(* an HTTPError) is an input chosen when the request is made.  Everything  *)
(* the client does that a caller or the server can see is appended to      *)
(* trace: requests, failed requests, responses, yields, sleeps, log lines. *)
(***************************************************************************)
EXTENDS Integers, Sequences, FiniteSets, TLC

\* ------------------------------------------------------------------ bounds
MaxItems == 2
MaxPages == 3
MaxRequests == 4
MaxClock == 2
MaxCookies == 2
MaxCalls == 2

\* ------------------------------------------------------- program constants
MaxTries == 5
BackoffBase == 2

Vids == {"a", "b"}
PlaylistIds == {"WL", "PL"}
NoneVal == 0

\* All sequences over S of length 0..n.
SeqUpTo(S, n) == UNION {[1..m -> S] : m \in 0..n}

\* ------------------------------------------------------------------ trace
Ev(e, url, tok, ct, xs, val) ==
    [e |-> e, url |-> url, tok |-> tok, itct |-> ct, xsrf |-> xs, val |-> val,
     pl |-> "", auth |-> ""]
Req(url, tok, ct, xs, val) == Ev("req", url, tok, ct, xs, val)
Err(url) == Ev("err", url, NoneVal, NoneVal, NoneVal, "")
Resp(url, tok, ct, xs) == Ev("resp", url, tok, ct, xs, "")
Yield(v) == Ev("yield", "", NoneVal, NoneVal, NoneVal, v)
Sleep(n) == Ev("sleep", "", n, NoneVal, NoneVal, "")
Log(v) == Ev("log", "", NoneVal, NoneVal, NoneVal, v)

RECURSIVE SelectEv(_, _)
\* The events of kind e of a trace, in order.
SelectEv(t, e) ==
    IF t = <<>> THEN <<>>
    ELSE IF Head(t).e = e THEN <<Head(t)>> \o SelectEv(Tail(t), e)
    ELSE SelectEv(Tail(t), e)

RECURSIVE Select(_, _, _)
\* The events of kind e about url of a trace, in order.
Select(t, e, url) ==
    IF t = <<>> THEN <<>>
    ELSE IF Head(t).e = e /\ Head(t).url = url
         THEN <<Head(t)>> \o Select(Tail(t), e, url)
    ELSE Select(Tail(t), e, url)

\* The requests to url of a trace, in order.
SelectUrl(t, url) == Select(t, "req", url)

\* ------------------------------------------------------- playlist pages
PlaylistVideo(v) ==
    [kind |-> "playlistVideoRenderer", videoId |-> v, token |-> NoneVal, itct |-> NoneVal]
\* The continuation item of page k: its token fetches page k + 1.
ContinuationItem(k) ==
    [kind |-> "continuationItemRenderer", videoId |-> "", token |-> k + 1, itct |-> 100 + k + 1]
OtherItem == [kind |-> "other", videoId |-> "", token |-> NoneVal, itct |-> NoneVal]

\* What the server may put on page k of a playlist of at most MaxPages pages.
PlaylistItemsAt(k) ==
    {PlaylistVideo(v) : v \in Vids} \cup {OtherItem}
        \cup (IF k < MaxPages THEN {ContinuationItem(k)} ELSE {})
PlaylistPagesAt(k) == SeqUpTo(PlaylistItemsAt(k), MaxItems)

VARIABLES
    logged_in,            \* YouTube.logged_in
    rsvi_cache,           \* YouTube._rsvi_cache: NoneVal or the cached page version
    cj,                   \* the cookie jar, a sequence of cookies
    clock,                \* datetime.now(), in seconds
    issued,               \* the authorization headers computed so far, each
                          \* with the clock value and the jar it was computed for
    wl_version,           \* server side: the version of the Watch Later page
                          \* during the call
    rejected,             \* server side: the videos whose history deletion
                          \* fails during the call
    op,                   \* the public operation being executed, or "idle"
    pc,                   \* its position
    result,               \* what the call returned or raised
    trace,                \* the observable events of the call, in order
    served,               \* server side: the pages served so far during the call
                          \* (of a history page, its entries)
    video_list_renderer,  \* get_playlist_info: the first page's contents
    continuation,         \* get_playlist_info: continuation
    itct,                 \* get_playlist_info: itct
    playlist_id,          \* argument of the playlist operations
    cache_values,         \* argument of remove_video_id_from_playlist
    video_ids,            \* clear_playlist: the ids still to remove
    params,               \* get_history_info: params
    xsrf,                 \* get_history_info: xsrf
    tries,                \* get_history_info: tries
    time,                 \* get_history_info: time
    last_exception,       \* get_history_info: last_exception, "" for None
    resp,                 \* get_history_info: resp
    ids,                  \* remove_video_ids_from_history: video_ids
    entries,              \* remove_video_ids_from_history: entries still to delete
    codes,                \* remove_video_ids_from_history: codes
    only_first_page,      \* _community_history: only_first_page
    item_section          \* _community_history: item_section

vars == <<logged_in, rsvi_cache, cj, clock, issued, wl_version, rejected, op, pc, result, trace, served,
          video_list_renderer, continuation, itct, playlist_id, cache_values, video_ids,
          params, xsrf, tries, time, last_exception, resp, ids, entries, codes,
          only_first_page, item_section>>

\* ------------------------------------------------------------ environment
\* DownloadMixin._download_page makes one attempt: it returns the response or
\* raises HTTPError (the exception get_history_info catches around it).
DownloadOutcomes == {"ok", "HTTPError"}

\* The playlist HTML page: its initial data may lack playlistVideoListRenderer,
\* or the renderer may lack 'contents'.
FirstPlaylistPages ==
    {[kind |-> "norenderer", contents |-> <<>>],
     [kind |-> "nocontents", contents |-> <<>>]}
        \cup {[kind |-> "list", contents |-> c] : c \in PlaylistPagesAt(1)}

IsContinuation(item) == item.kind = "continuationItemRenderer"
IsVideo(item) == item.kind = "playlistVideoRenderer"

RECURSIVE FirstContinuation(_)
\* The first continuation item of a page, or OtherItem when it has none.
FirstContinuation(items) ==
    IF items = <<>> THEN OtherItem
    ELSE IF IsContinuation(Head(items)) THEN Head(items)
    ELSE FirstContinuation(Tail(items))

\* The server answers a token it has answered before with the same page, and a
\* new token with any page the playlist may have there.
PagesFor(token) ==
    IF token <= Len(served) THEN {served[token]} ELSE PlaylistPagesAt(token)
ServedAfter(token, page) ==
    IF token <= Len(served) THEN served ELSE Append(served, page)

\* An operation without the login check.
NoLoginCheck(li) == FALSE

\* if not self.logged_in: raise AuthenticationError(...)
RequiresLogin(li) == ~li

\* ------------------------------------------------------ get_playlist_info
\* A loop that does not stop at the continuation item.
YieldEveryVideo(items) ==
    LET IsVideoItem(x) == x.kind = "playlistVideoRenderer"
        videos == SelectSeq(items, IsVideoItem)
    IN [i \in 1..Len(videos) |-> Yield(videos[i].videoId)]

RECURSIVE YieldItems(_)
\* for item in items: yield the videos, stop at the first continuation item.
YieldItems(items) ==
    IF items = <<>> THEN <<>>
    ELSE IF IsVideo(Head(items)) THEN <<Yield(Head(items).videoId)>> \o YieldItems(Tail(items))
    ELSE IF IsContinuation(Head(items)) THEN <<>>
    ELSE YieldItems(Tail(items))

\* contents[-1]['continuationItemRenderer']['continuationEndpoint'], or
\* OtherItem where the lookup raises KeyError.
LastEndpoint(contents) ==
    IF IsContinuation(contents[Len(contents)]) THEN contents[Len(contents)] ELSE OtherItem

\* The endpoint re-read inside the loop when a page holds a continuation item:
\* the code reads it from video_list_renderer, the contents of the first page.
LoopEndpoint(vlr, items) == LastEndpoint(vlr.contents)

\* A loop that never takes the break of line 247.
LoopNeverBreaks(items) == FALSE

\* if 'continuationItemRenderer' not in items[-1]: break
LoopBreaks(items) == ~IsContinuation(items[Len(items)])

\* The generator ends: a plain call is over, clear_playlist goes on.
WalkerEnd(how) == IF op = "get_playlist_info" THEN how ELSE "pl_" \o how

BrowseCount == Len(SelectUrl(trace, "browse_ajax"))

PlaylistFrame == <<video_list_renderer, continuation, itct>>
HistoryFrame == <<params, xsrf, tries, time, last_exception, resp>>
RemoveFrame == <<ids, entries, codes>>
CommunityFrame == <<only_first_page, item_section>>
Client == <<logged_in, rsvi_cache, cj, clock, issued>>
Server == <<wl_version, rejected>>

\* get_playlist_info(playlist_id): the generator is created, nothing runs yet.
CallGetPlaylistInfo ==
    /\ op = "idle"
    /\ \E p \in PlaylistIds : playlist_id' = p
    /\ op' = "get_playlist_info"
    /\ pc' = "pl_start"
    /\ UNCHANGED <<Client, Server, result, trace, served, PlaylistFrame, cache_values, video_ids,
                   HistoryFrame, RemoveFrame, CommunityFrame>>

\* First iteration: the login check, the HTML page, its videos and endpoint.
PlaylistFirstPage ==
    /\ pc = "pl_start"
    /\ UNCHANGED <<Client, Server, op, playlist_id, cache_values, video_ids, HistoryFrame, RemoveFrame, CommunityFrame>>
    /\ IF RequiresLogin(logged_in)
       THEN /\ pc' = WalkerEnd("raised")
            /\ result' = "AuthenticationError"
            /\ UNCHANGED <<trace, served, PlaylistFrame>>
       ELSE \E outcome \in DownloadOutcomes, first \in FirstPlaylistPages :
            LET req == Req("playlist", NoneVal, NoneVal, NoneVal, playlist_id)
                cont == FirstContinuation(first.contents)
                got == <<req, Resp("playlist", cont.token, cont.itct, NoneVal)>>
            IN
            IF outcome = "HTTPError"
            THEN /\ trace' = trace \o <<req, Err("playlist")>>
                 /\ pc' = WalkerEnd("raised")
                 /\ result' = "HTTPError"
                 /\ UNCHANGED <<served, PlaylistFrame>>
            ELSE
            /\ served' = <<first.contents>>
            /\ video_list_renderer' = first
            /\ IF first.kind = "norenderer"
               THEN /\ trace' = trace \o got
                    /\ pc' = WalkerEnd("raised")
                    /\ result' = "KeyError"
                    /\ UNCHANGED <<continuation, itct>>
               ELSE IF first.kind = "nocontents"
               THEN /\ trace' = trace \o got
                    /\ pc' = WalkerEnd("done")
                    /\ result' = "StopIteration"
                    /\ UNCHANGED <<continuation, itct>>
               ELSE IF first.contents = <<>>
               THEN /\ trace' = trace \o got
                    /\ pc' = WalkerEnd("raised")
                    /\ result' = "IndexError"
                    /\ UNCHANGED <<continuation, itct>>
               ELSE LET endpoint == LastEndpoint(first.contents) IN
                    /\ trace' = trace \o got \o YieldItems(first.contents)
                    /\ continuation' = endpoint.token
                    /\ itct' = endpoint.itct
                    /\ IF endpoint.token # NoneVal /\ endpoint.itct # NoneVal
                       THEN pc' = "pl_loop" /\ UNCHANGED result
                       ELSE pc' = WalkerEnd("done") /\ result' = "StopIteration"

\* One turn of the while True loop: a browse_ajax request and its page.
PlaylistNextPage ==
    /\ pc = "pl_loop"
    /\ BrowseCount < MaxRequests
    /\ UNCHANGED <<Client, Server, op, playlist_id, cache_values, video_ids, video_list_renderer,
                   HistoryFrame, RemoveFrame, CommunityFrame>>
    /\ \E outcome \in DownloadOutcomes, items \in PagesFor(continuation) :
        LET req == Req("browse_ajax", continuation, itct, NoneVal, "")
            cont == FirstContinuation(items)
            got == <<req, Resp("browse_ajax", cont.token, cont.itct, NoneVal)>>
                       \o YieldItems(items)
            endpoint == IF IsContinuation(cont)
                        THEN LoopEndpoint(video_list_renderer, items)
                        ELSE [token |-> continuation, itct |-> itct]
        IN
        IF outcome = "HTTPError"
        THEN /\ trace' = trace \o <<req, Err("browse_ajax")>>
             /\ pc' = WalkerEnd("raised")
             /\ result' = "HTTPError"
             /\ UNCHANGED <<served, continuation, itct>>
        ELSE
        /\ served' = ServedAfter(continuation, items)
        /\ trace' = trace \o got
        /\ continuation' = endpoint.token
        /\ itct' = endpoint.itct
        /\ IF items = <<>>
           THEN pc' = WalkerEnd("raised") /\ result' = "IndexError"
           ELSE IF LoopBreaks(items)
           THEN pc' = WalkerEnd("done") /\ result' = "StopIteration"
           ELSE pc' = "pl_loop" /\ UNCHANGED result

\* ------------------------------------- _authorization_sapisidhash_header
Origin == "https://www.youtube.com"
SapisidNames == {"SAPISID", "__Secure-3PAPISID"}

RECURSIVE FindSapisid(_)
\* for cookie in self._cj: the value of the first cookie with one of the two
\* names, "" (None) when there is none.
FindSapisid(jar) ==
    IF jar = <<>> THEN ""
    ELSE IF Head(jar).name \in SapisidNames THEN Head(jar).value
    ELSE FindSapisid(Tail(jar))

\* hashlib.sha1(...).hexdigest(), symbolically: distinct messages have
\* distinct digests.
Sha1Hex(message) == "sha1(" \o message \o ")"

\* A message that leaves the origin out.
HashedMessageNoOrigin(now, sapisid) == ToString(now) \o " " \o sapisid

\* f'{now} {sapisid} https://www.youtube.com'
HashedMessage(now, sapisid) == ToString(now) \o " " \o sapisid \o " " \o Origin

\* The header for the clock value now, read once, and the jar; "AssertionError"
\* when the jar has no SAPISID cookie.
AuthorizationHeader(now, jar) ==
    LET sapisid == FindSapisid(jar) IN
    IF sapisid = "" THEN "AssertionError"
    ELSE "SAPISIDHASH " \o ToString(now) \o "_" \o Sha1Hex(HashedMessage(now, sapisid))

\* ------------------------------------------ remove_video_id_from_playlist
\* The versions of the Watch Later page (its soup, ytcfg and headers) the
\* server may hand out.
PageVersions == {1, 2}
Statuses == {"STATUS_SUCCEEDED", "STATUS_FAILED"}

\* A client that ignores its cache.
AlwaysDownloads(cv, cache) == FALSE

\* if cache_values and self._rsvi_cache: the cached values are used
UsesCache(cv, cache) == cv /\ cache # NoneVal

\* The body of remove_video_id_from_playlist after the login check, for the
\* page version ver the server has and the outcomes o1 (the download of the
\* page) and o2 (the edit_playlist post
\* answering status): its events, the cache afterwards, the exception raised
\* ("" for none) and the value returned.
RemoveVideoId(pid, vid, cv, cache, ver, o1, o2, status) ==
    LET download == Req("watch_later", NoneVal, NoneVal, NoneVal, "")
        ytcfg == IF UsesCache(cv, cache) THEN cache ELSE ver
        before == IF UsesCache(cv, cache) THEN <<>> ELSE <<download>>
        cached == IF cv THEN ytcfg ELSE cache
        header == AuthorizationHeader(clock, cj)
        post == [Req("edit_playlist", ytcfg, NoneVal, NoneVal, vid)
                    EXCEPT !.pl = pid, !.auth = header]
    IN
    IF ~UsesCache(cv, cache) /\ o1 = "HTTPError"
    THEN [events |-> <<download, Err("watch_later")>>, cache |-> cache,
          exc |-> "HTTPError", ret |-> FALSE]
    ELSE IF header = "AssertionError"
    THEN [events |-> before, cache |-> cached, exc |-> "AssertionError", ret |-> FALSE]
    ELSE IF o2 = "HTTPError"
    THEN [events |-> before \o <<post, Err("edit_playlist")>>, cache |-> cached,
          exc |-> "HTTPError", ret |-> FALSE]
    ELSE [events |-> before \o <<post>>, cache |-> cached, exc |-> "",
          ret |-> (status = "STATUS_SUCCEEDED")]

Frames == <<served, PlaylistFrame, video_ids, HistoryFrame, RemoveFrame, CommunityFrame>>

\* remove_video_id_from_playlist(playlist_id, video_id, cache_values)
RemoveVideoIdFromPlaylist ==
    /\ op = "idle"
    /\ op' = "remove_video_id_from_playlist"
    /\ UNCHANGED <<logged_in, cj, clock, issued, rejected, Frames>>
    /\ \E p \in PlaylistIds, v \in Vids, cv \in BOOLEAN, ver \in PageVersions :
        /\ playlist_id' = p
        /\ wl_version' = ver
        /\ cache_values' = cv
        /\ IF RequiresLogin(logged_in)
           THEN /\ pc' = "raised"
                /\ result' = "AuthenticationError"
                /\ UNCHANGED <<trace, rsvi_cache>>
           ELSE \E o1 \in DownloadOutcomes, o2 \in DownloadOutcomes, status \in Statuses :
                LET r == RemoveVideoId(p, v, cv, rsvi_cache, ver, o1, o2, status) IN
                /\ trace' = trace \o r.events
                /\ rsvi_cache' = r.cache
                /\ pc' = IF r.exc = "" THEN "done" ELSE "raised"
                /\ result' = IF r.exc = "" THEN ToString(r.ret) ELSE r.exc

\* ---------------------------------------- clear_playlist, clear_watch_later
ClearOps == {"clear_playlist", "clear_watch_later"}

\* The login check of clear_playlist and the creation of the generator.
ClearStart(name, p) ==
    /\ op = "idle"
    /\ op' = name
    /\ playlist_id' = p
    /\ \E ver \in PageVersions : wl_version' = ver
    /\ UNCHANGED <<Client, rejected, trace, Frames, cache_values>>
    /\ IF RequiresLogin(logged_in)
       THEN pc' = "raised" /\ result' = "AuthenticationError"
       ELSE pc' = "pl_start" /\ UNCHANGED result

CallClearPlaylist == \E p \in PlaylistIds : ClearStart("clear_playlist", p)

\* clear_watch_later(): clear_playlist('WL')
CallClearWatchLater == ClearStart("clear_watch_later", "WL")

RECURSIVE ValuesOf(_)
ValuesOf(events) ==
    IF events = <<>> THEN <<>> ELSE <<Head(events).val>> \o ValuesOf(Tail(events))

\* A collection that loses the first video.
CollectAfterFirst(yields) ==
    [i \in 1..(Len(yields) - 1) |-> yields[i + 1].val]

\* list(map(lambda x: x['playlistVideoRenderer']['videoId'], playlist_info))
CollectVideoIds(yields) == ValuesOf(yields)

\* video_ids = list(map(..., playlist_info)): the generator has been run to
\* its end; a KeyError it raised is logged and the call returns.
ClearPlaylistCollect ==
    /\ op \in ClearOps
    /\ pc \in {"pl_done", "pl_raised"}
    /\ UNCHANGED <<Client, Server, op, trace, served, PlaylistFrame, playlist_id, cache_values,
                   HistoryFrame, RemoveFrame, CommunityFrame>>
    /\ IF pc = "pl_done"
       THEN /\ video_ids' = CollectVideoIds(SelectEv(trace, "yield"))
            /\ pc' = "cp_remove"
            /\ result' = ""
       ELSE /\ UNCHANGED video_ids
            /\ IF result = "KeyError"
               THEN pc' = "done" /\ result' = "None"
               ELSE pc' = "raised" /\ UNCHANGED result

\* for video_id in video_ids: self.remove_video_id_from_playlist(...)
ClearPlaylistRemove ==
    /\ op \in ClearOps
    /\ pc = "cp_remove"
    /\ UNCHANGED <<logged_in, cj, clock, issued, Server, op, served, PlaylistFrame, playlist_id, cache_values,
                   HistoryFrame, RemoveFrame, CommunityFrame>>
    /\ IF video_ids = <<>>
       THEN /\ pc' = "done"
            /\ result' = "None"
            /\ UNCHANGED <<trace, rsvi_cache, video_ids>>
       ELSE \E o1 \in DownloadOutcomes, o2 \in DownloadOutcomes, status \in Statuses :
            LET r == RemoveVideoId(playlist_id, Head(video_ids), FALSE, rsvi_cache,
                                   wl_version, o1, o2, status) IN
            /\ trace' = trace \o r.events
            /\ rsvi_cache' = r.cache
            /\ IF r.exc = ""
               THEN /\ video_ids' = Tail(video_ids)
                    /\ UNCHANGED <<pc, result>>
               ELSE /\ pc' = "raised"
                    /\ result' = r.exc
                    /\ UNCHANGED video_ids

\* ------------------------------------------------------- history pages
HistoryItems(c) ==
    [kind |-> "itemSectionRenderer", contents |-> c, token |-> NoneVal, itct |-> NoneVal]
\* The continuation section of page k: its token fetches page k + 1.
HistoryContinuation(k) ==
    [kind |-> "continuationItemRenderer", contents |-> <<>>, token |-> k + 1,
     itct |-> 100 + k + 1]
HistoryOther == [kind |-> "other", contents |-> <<>>, token |-> NoneVal, itct |-> NoneVal]
NoSection == [kind |-> "none", contents |-> <<>>, token |-> NoneVal, itct |-> NoneVal]

\* What the server may put on page k of a history of at most MaxPages pages:
\* item sections and sections of another kind, and last the continuation
\* section when the history goes on.
HistorySectionsAt(k) ==
    {HistoryItems(<<"a", "b">>), HistoryOther}
        \cup (IF k < MaxPages THEN {HistoryContinuation(k)} ELSE {})
HistoryPagesAt(k) ==
    {s \in SeqUpTo(HistorySectionsAt(k), MaxItems) :
        \A i \in 1..(Len(s) - 1) : s[i].kind # "continuationItemRenderer"}

\* The xsrf token page k hands out (ytcfg['XSRF_TOKEN'], resp[1]['xsrf_token']).
XsrfOf(k) == 200 + k

\* The history HTML page; legacy: sectionListRenderer has a 'continuations' list.
FirstHistoryPages ==
    {[kind |-> "list", sections |-> s, legacy |-> l, xsrf |-> XsrfOf(1)] :
        s \in HistoryPagesAt(1),
        l \in (IF MaxPages > 1 THEN BOOLEAN ELSE {FALSE})}

\* A browse_ajax answer; nokey: it has no 'onResponseReceivedActions'.
FollowupHistoryPages(k) ==
    {[kind |-> "nokey", sections |-> <<>>, legacy |-> FALSE, xsrf |-> XsrfOf(k)]}
        \cup {[kind |-> "list", sections |-> s, legacy |-> FALSE, xsrf |-> XsrfOf(k)] :
                s \in HistoryPagesAt(k)}

\* The entries of the item sections of a history page, in order.
EntriesOn(sections) ==
    LET Flat[i \in 0..Len(sections)] ==
            IF i = 0 THEN <<>>
            ELSE Flat[i - 1] \o (IF sections[i].kind = "itemSectionRenderer"
                                  THEN sections[i].contents ELSE <<>>)
    IN Flat[Len(sections)]

NoResp == [kind |-> "none", sections |-> <<>>, legacy |-> FALSE, xsrf |-> NoneVal]
NoParams == [continuation |-> NoneVal, ctoken |-> NoneVal, itct |-> NoneVal]
NoContinuation == [continuation |-> NoneVal, clickTrackingParams |-> NoneVal]

\* The continuation a history page carries: that of its first continuation
\* section, else that of its 'continuations' list.
HistoryCarried(page) ==
    LET c == FirstContinuation(page.sections) IN
    IF IsContinuation(c) THEN [continuation |-> c.token, clickTrackingParams |-> c.itct]
    ELSE IF page.legacy
    THEN [continuation |-> HistoryContinuation(1).token,
          clickTrackingParams |-> HistoryContinuation(1).itct]
    ELSE NoContinuation

\* -------------------------------------------------------- get_history_info
RECURSIVE YieldAll(_)
\* yield from contents
YieldAll(contents) ==
    IF contents = <<>> THEN <<>> ELSE <<Yield(Head(contents))>> \o YieldAll(Tail(contents))

RECURSIVE HistoryScan(_, _)
\* for section_list in ...: the entries yielded and the section the loop stops
\* at: the first continuation section, or (skip false: raise e) the first
\* section that is neither; NoSection when the loop runs to the end.
HistoryScan(sections, skip) ==
    IF sections = <<>> THEN [yields |-> <<>>, stop |-> NoSection]
    ELSE LET h == Head(sections)
             r == HistoryScan(Tail(sections), skip)
         IN
         IF h.kind = "itemSectionRenderer"
         THEN [yields |-> YieldAll(h.contents) \o r.yields, stop |-> r.stop]
         ELSE IF IsContinuation(h) \/ ~skip THEN [yields |-> <<>>, stop |-> h]
         ELSE r

\* next_continuation after the first page (lines 286-305).
NextContinuation(first) ==
    LET stop == HistoryScan(first.sections, TRUE).stop IN
    IF IsContinuation(stop)
    THEN [continuation |-> stop.token, clickTrackingParams |-> stop.itct]
    ELSE IF first.legacy
    THEN [continuation |-> HistoryContinuation(1).token,
          clickTrackingParams |-> HistoryContinuation(1).itct]
    ELSE NoContinuation

\* A walk that keeps the session token of the HTML page.
KeepXsrf(old, page) == old

\* xsrf = resp[1]['xsrf_token']
NextXsrf(old, page) == page.xsrf

\* A loop that makes one attempt only.
TriesLeftOnce(t) == t < 1

\* while tries < 5
TriesLeft(t) == t < MaxTries

\* A backoff that grows linearly: time = 2 * tries.
BackoffLinear(t) == BackoffBase * t

\* time = 2**tries
Backoff(t) == BackoffBase ^ t

\* if last_exception: ... break
GivesUp(e) == e # ""

\* A walk that raises the last exception once it gives up.
GiveUpRaises(e) == [how |-> "raised", result |-> e, log |-> <<>>]

\* What the walk does once it gives up: the exception is logged, the loop is
\* left and the generator ends.
GiveUpOutcome(e) == [how |-> "done", result |-> "StopIteration", log |-> <<Log(e)>>]

HistoryEnd(how) == IF op = "get_history_info" THEN how ELSE "hi_" \o how

\* The number of the page the next browse_ajax answer is.
NextPageNo == Len(Select(trace, "resp", "browse_ajax")) + 2

\* get_history_info(): the generator is created, nothing runs yet.
CallGetHistoryInfo ==
    /\ op = "idle"
    /\ op' = "get_history_info"
    /\ pc' = "hi_start"
    /\ UNCHANGED <<Client, Server, result, trace, Frames, playlist_id, cache_values>>

\* First iteration: the login check, the HTML page, its entries and its
\* continuation.
HistoryFirstPage ==
    /\ pc = "hi_start"
    /\ UNCHANGED <<Client, Server, op, PlaylistFrame, playlist_id, cache_values, video_ids,
                   RemoveFrame, CommunityFrame, tries, time, last_exception, resp>>
    /\ IF RequiresLogin(logged_in)
       THEN /\ pc' = HistoryEnd("raised")
            /\ result' = "AuthenticationError"
            /\ UNCHANGED <<trace, served, params, xsrf>>
       ELSE \E outcome \in DownloadOutcomes, first \in FirstHistoryPages :
            LET req == Req("history", NoneVal, NoneVal, NoneVal, "")
                carried == HistoryCarried(first)
                got == <<req, Resp("history", carried.continuation,
                                   carried.clickTrackingParams, first.xsrf)>>
                next_continuation == NextContinuation(first)
            IN
            IF outcome = "HTTPError"
            THEN /\ trace' = trace \o <<req, Err("history")>>
                 /\ pc' = HistoryEnd("raised")
                 /\ result' = "HTTPError"
                 /\ UNCHANGED <<served, params, xsrf>>
            ELSE
            /\ served' = Append(served, EntriesOn(first.sections))
            /\ trace' = trace \o got \o HistoryScan(first.sections, TRUE).yields
            /\ IF next_continuation = NoContinuation
               THEN /\ pc' = HistoryEnd("done")
                    /\ result' = "StopIteration"
                    /\ UNCHANGED <<params, xsrf>>
               ELSE /\ params' = [continuation |-> next_continuation.continuation,
                                  ctoken |-> next_continuation.continuation,
                                  itct |-> next_continuation.clickTrackingParams]
                    /\ xsrf' = first.xsrf
                    /\ pc' = "hi_retry"
                    /\ UNCHANGED result

\* One turn of the inner loop: the sleep, the request, and either the answer
\* (break) or the HTTPError (tries += 1; time = 2**tries).
HistoryAttempt ==
    /\ pc = "hi_retry"
    /\ TriesLeft(tries)
    /\ UNCHANGED <<Client, Server, op, PlaylistFrame, playlist_id, cache_values, video_ids,
                   RemoveFrame, CommunityFrame, params, xsrf, result>>
    /\ \E outcome \in DownloadOutcomes, page \in FollowupHistoryPages(NextPageNo) :
        LET slept == IF time # 0 THEN <<Sleep(time)>> ELSE <<>>
            req == Req("browse_ajax", params.ctoken, params.itct, xsrf, "")
            carried == HistoryCarried(page)
        IN
        IF outcome = "HTTPError"
        THEN /\ trace' = trace \o slept \o <<req, Err("browse_ajax")>>
             /\ last_exception' = "HTTPError"
             /\ tries' = tries + 1
             /\ time' = Backoff(tries + 1)
             /\ pc' = IF TriesLeft(tries + 1) THEN "hi_retry" ELSE "hi_after"
             /\ UNCHANGED <<resp, served>>
        ELSE /\ trace' = trace \o slept
                    \o <<req, Resp("browse_ajax", carried.continuation,
                                   carried.clickTrackingParams, page.xsrf)>>
             /\ resp' = page
             /\ served' = Append(served, EntriesOn(page.sections))
             /\ pc' = "hi_after"
             /\ UNCHANGED <<last_exception, tries, time>>

\* After the inner loop: give up, or process resp and go round the outer loop
\* (tries = 0; time = 0; last_exception = None).
HistoryProcess ==
    /\ pc = "hi_after"
    /\ UNCHANGED <<Client, Server, op, served, PlaylistFrame, playlist_id, cache_values, video_ids,
                   RemoveFrame, CommunityFrame, resp>>
    /\ IF GivesUp(last_exception)
       THEN LET o == GiveUpOutcome(last_exception) IN
            /\ trace' = trace \o o.log
            /\ pc' = HistoryEnd(o.how)
            /\ result' = o.result
            /\ UNCHANGED <<params, xsrf, tries, time, last_exception>>
       ELSE IF resp.kind = "nokey"
       THEN /\ trace' = trace \o <<Log("KeyError")>>
            /\ pc' = HistoryEnd("done")
            /\ result' = "StopIteration"
            /\ UNCHANGED <<params, xsrf, tries, time, last_exception>>
       ELSE LET scan == HistoryScan(resp.sections, FALSE) IN
            IF scan.stop.kind = "other"
            THEN /\ trace' = trace \o scan.yields
                 /\ pc' = HistoryEnd("raised")
                 /\ result' = "KeyError"
                 /\ UNCHANGED <<params, xsrf, tries, time, last_exception>>
            ELSE IF ~IsContinuation(scan.stop)
            THEN /\ trace' = trace \o scan.yields \o <<Log("TypeError")>>
                 /\ pc' = HistoryEnd("done")
                 /\ result' = "StopIteration"
                 /\ UNCHANGED <<params, xsrf, tries, time, last_exception>>
            ELSE /\ trace' = trace \o scan.yields
                 /\ xsrf' = NextXsrf(xsrf, resp)
                 /\ params' = [continuation |-> scan.stop.token,
                               ctoken |-> scan.stop.token,
                               itct |-> scan.stop.itct]
                 /\ tries' = 0
                 /\ time' = 0
                 /\ last_exception' = ""
                 /\ pc' = "hi_retry"
                 /\ UNCHANGED result

\* ------------------------------------------- remove_video_ids_from_history
\* The code the server answers the deletion of video v with.
CodeFor(v) == IF v \in rejected THEN "FAILURE" ELSE "SUCCESS"

RECURSIVE MatchingEntries(_, _)
\* [x for x in history_info if x['videoRenderer']['videoId'] in video_ids]
MatchingEntries(yields, wanted) ==
    IF yields = <<>> THEN <<>>
    ELSE IF Head(yields).val \in wanted
         THEN <<Head(yields).val>> \o MatchingEntries(Tail(yields), wanted)
    ELSE MatchingEntries(Tail(yields), wanted)

\* The arguments remove_video_ids_from_history is called with.
WantedIds == {{}, {"b"}, {"a", "b"}}

\* The videos whose deletion the server may answer with another code than
\* SUCCESS.
Rejectable == {"b"}

\* all(codes)
All(cs) == \A i \in 1..Len(cs) : cs[i]

\* The login check, the test of video_ids and the download of the history page
\* for its ytcfg; the generator history_info has not run yet.
CallRemoveVideoIdsFromHistory ==
    /\ op = "idle"
    /\ op' = "remove_video_ids_from_history"
    /\ UNCHANGED <<Client, Server, served, PlaylistFrame, video_ids, HistoryFrame,
                   CommunityFrame, playlist_id, cache_values, entries, codes>>
    /\ \E wanted \in WantedIds, outcome \in DownloadOutcomes :
        LET req == Req("history", NoneVal, NoneVal, NoneVal, "ytcfg") IN
        /\ ids' = wanted
        /\ IF RequiresLogin(logged_in)
           THEN pc' = "raised" /\ result' = "AuthenticationError" /\ UNCHANGED trace
           ELSE IF wanted = {}
           THEN pc' = "done" /\ result' = "FALSE" /\ UNCHANGED trace
           ELSE IF outcome = "HTTPError"
           THEN /\ trace' = trace \o <<req, Err("history")>>
                /\ pc' = "raised"
                /\ result' = "HTTPError"
           ELSE /\ trace' = trace \o <<req>>
                /\ pc' = "hi_start"
                /\ UNCHANGED result

\* entries = [...]: the generator has been run to its end.
RemoveHistoryCollect ==
    /\ op = "remove_video_ids_from_history"
    /\ pc \in {"hi_done", "hi_raised"}
    /\ UNCHANGED <<Client, wl_version, op, trace, served, PlaylistFrame, video_ids,
                   HistoryFrame, CommunityFrame, playlist_id, cache_values, ids, codes>>
    /\ IF pc = "hi_raised"
       THEN pc' = "raised" /\ UNCHANGED <<result, entries, rejected>>
       ELSE LET found == MatchingEntries(SelectEv(trace, "yield"), ids) IN
            /\ entries' = found
            /\ IF found = <<>>
               THEN pc' = "done" /\ result' = "FALSE" /\ UNCHANGED rejected
               ELSE /\ pc' = "rh_delete"
                    /\ result' = ""
                    /\ \E failing \in SUBSET (ids \cap Rejectable) : rejected' = failing

\* for entry in entries: one post to service_ajax; return all(codes).
RemoveHistoryDelete ==
    /\ op = "remove_video_ids_from_history"
    /\ pc = "rh_delete"
    /\ UNCHANGED <<Client, Server, op, served, PlaylistFrame, video_ids, HistoryFrame,
                   CommunityFrame, playlist_id, cache_values, ids>>
    /\ IF entries = <<>>
       THEN /\ pc' = "done"
            /\ result' = ToString(All(codes))
            /\ UNCHANGED <<trace, entries, codes>>
       ELSE \E outcome \in DownloadOutcomes :
            LET code == CodeFor(Head(entries))
                req == Req("service_ajax", NoneVal, NoneVal, XsrfOf(1), Head(entries))
                answer == [Resp("service_ajax", NoneVal, NoneVal, NoneVal) EXCEPT !.val = code]
            IN
            IF outcome = "HTTPError"
            THEN /\ trace' = trace \o <<req, Err("service_ajax")>>
                 /\ pc' = "raised"
                 /\ result' = "HTTPError"
                 /\ UNCHANGED <<entries, codes>>
            ELSE /\ trace' = trace \o <<req, answer>>
                 /\ codes' = Append(codes, code = "SUCCESS")
                 /\ entries' = Tail(entries)
                 /\ UNCHANGED <<pc, result>>

\* ------------------------------------------------------ _community_history
CommentIds == {"c1"}

\* An item section of the community history: its comments, and whether it has
\* a 'continuations' key, empty or holding the one nextContinuationData of the
\* section (token k + 1 on page k).
CommunityPagesAt(k) ==
    {[contents |-> c, continuations |-> n, token |-> k + 1, itct |-> 100 + k + 1] :
        c \in SeqUpTo(CommentIds, MaxItems),
        n \in {"absent", "empty"} \cup (IF k < MaxPages THEN {"next"} ELSE {})}

NoItemSection == [contents |-> <<>>, continuations |-> "absent", token |-> NoneVal,
                  itct |-> NoneVal]

\* 'continuations' in item_section and item_section['continuations']
HasContinuations(section) == section.continuations = "next"

\* What a community page carries, as a Resp event.
CommunityResp(url, section) ==
    IF HasContinuations(section)
    THEN Resp(url, section.token, section.itct, NoneVal)
    ELSE Resp(url, NoneVal, NoneVal, NoneVal)

\* community_history(only_first_page): yield from self._community_history(...)
CallCommunityHistory ==
    /\ op = "idle"
    /\ op' = "community_history"
    /\ pc' = "co_start"
    /\ \E first_only \in BOOLEAN : only_first_page' = first_only
    /\ UNCHANGED <<Client, Server, result, trace, served, PlaylistFrame, video_ids, HistoryFrame,
                   RemoveFrame, item_section, playlist_id, cache_values>>

\* First iteration: the login check, the HTML page and its comments.
CommunityFirstPage ==
    /\ pc = "co_start"
    /\ UNCHANGED <<Client, Server, op, served, PlaylistFrame, video_ids, HistoryFrame, RemoveFrame,
                   only_first_page, playlist_id, cache_values>>
    /\ IF RequiresLogin(logged_in)
       THEN /\ pc' = "raised"
            /\ result' = "AuthenticationError"
            /\ UNCHANGED <<trace, item_section>>
       ELSE \E outcome \in DownloadOutcomes, first \in CommunityPagesAt(1) :
            LET req == Req("community", NoneVal, NoneVal, NoneVal, "") IN
            IF outcome = "HTTPError"
            THEN /\ trace' = trace \o <<req, Err("community")>>
                 /\ pc' = "raised"
                 /\ result' = "HTTPError"
                 /\ UNCHANGED item_section
            ELSE /\ trace' = trace \o <<req, CommunityResp("community", first)>>
                        \o YieldAll(first.contents)
                 /\ item_section' = first
                 /\ IF only_first_page \/ ~HasContinuations(first)
                    THEN pc' = "done" /\ result' = "StopIteration"
                    ELSE pc' = "co_loop" /\ UNCHANGED result

\* One turn of while has_continuations: the request for the section's
\* continuation and the comments of the answer.
CommunityNextPage ==
    /\ pc = "co_loop"
    /\ UNCHANGED <<Client, Server, op, served, PlaylistFrame, video_ids, HistoryFrame, RemoveFrame,
                   only_first_page, playlist_id, cache_values>>
    /\ \E outcome \in DownloadOutcomes,
          page \in CommunityPagesAt(Len(Select(trace, "resp", "browse_ajax")) + 2) :
        LET req == Req("browse_ajax", item_section.token, item_section.itct, XsrfOf(1), "") IN
        IF outcome = "HTTPError"
        THEN /\ trace' = trace \o <<req, Err("browse_ajax")>>
             /\ pc' = "raised"
             /\ result' = "HTTPError"
             /\ UNCHANGED item_section
        ELSE /\ trace' = trace \o <<req, CommunityResp("browse_ajax", page)>>
                    \o YieldAll(page.contents)
             /\ item_section' = page
             /\ IF HasContinuations(page)
                THEN pc' = "co_loop" /\ UNCHANGED result
                ELSE pc' = "done" /\ result' = "StopIteration"

\* ------------------------------------------------- the one-shot operations
\* An operation that checks the login, downloads page (unless has_ytcfg) and
\* sends one post; lookup: the data of the post may be missing from the page
\* (KeyError), which ends the call without the post; auth: the post carries
\* the SAPISIDHASH header; value: the call returns a boolean read from the
\* answer, else None.
PageThenPost(name, page, post, lookup, auth, value) ==
    /\ op = "idle"
    /\ op' = name
    /\ UNCHANGED <<Client, Server, Frames, playlist_id, cache_values>>
    /\ IF RequiresLogin(logged_in)
       THEN pc' = "raised" /\ result' = "AuthenticationError" /\ UNCHANGED trace
       ELSE \E o1 \in DownloadOutcomes, o2 \in DownloadOutcomes,
               found \in (IF lookup THEN BOOLEAN ELSE {TRUE}),
               has_ytcfg \in (IF name = "delete_community_entry" THEN BOOLEAN ELSE {FALSE}),
               answer \in (IF value THEN BOOLEAN ELSE {TRUE}) :
            LET download == IF has_ytcfg THEN <<>>
                            ELSE <<Req(page, NoneVal, NoneVal, NoneVal, "")>>
                header == IF auth THEN AuthorizationHeader(clock, cj) ELSE ""
                send == [Req(post, NoneVal, NoneVal, NoneVal, "") EXCEPT !.auth = header]
            IN
            IF ~has_ytcfg /\ o1 = "HTTPError"
            THEN /\ trace' = trace \o download \o <<Err(page)>>
                 /\ pc' = "raised"
                 /\ result' = "HTTPError"
            ELSE IF ~found
            THEN /\ trace' = trace \o download
                 /\ pc' = "done"
                 /\ result' = "None"
            ELSE IF header = "AssertionError"
            THEN /\ trace' = trace \o download
                 /\ pc' = "raised"
                 /\ result' = "AssertionError"
            ELSE IF o2 = "HTTPError"
            THEN /\ trace' = trace \o download \o <<send, Err(post)>>
                 /\ pc' = "raised"
                 /\ result' = "HTTPError"
            ELSE /\ trace' = trace \o download \o <<send>>
                 /\ pc' = "done"
                 /\ result' = IF value THEN ToString(answer) ELSE "None"

ClearWatchHistory ==
    PageThenPost("clear_watch_history", "history", "service_ajax", TRUE, FALSE, FALSE)

\* _toggle_history: the page, then _single_feedback_api_call.
ToggleHistory(name, page) == PageThenPost(name, page, "feedback", FALSE, TRUE, TRUE)

ToggleSearchHistory == ToggleHistory("toggle_search_history", "search_history")

ToggleWatchHistory == ToggleHistory("toggle_watch_history", "watch_history")

DeleteCommunityEntry ==
    PageThenPost("delete_community_entry", "community", "comment_action", FALSE, TRUE, TRUE)

ClearSearchHistory ==
    PageThenPost("clear_search_history", "search_history", "feedback", FALSE, TRUE, TRUE)

\* The call is over; the next one starts from the client's persistent state.
Reset ==
    /\ pc \in {"done", "raised"}
    /\ op' = "idle"
    /\ pc' = "idle"
    /\ result' = ""
    /\ trace' = <<>>
    /\ served' = <<>>
    /\ video_list_renderer' = [kind |-> "nocontents", contents |-> <<>>]
    /\ continuation' = NoneVal
    /\ itct' = NoneVal
    /\ playlist_id' = ""
    /\ cache_values' = FALSE
    /\ video_ids' = <<>>
    /\ params' = NoParams
    /\ xsrf' = NoneVal
    /\ tries' = 0
    /\ time' = 0
    /\ last_exception' = ""
    /\ resp' = NoResp
    /\ ids' = {}
    /\ entries' = <<>>
    /\ codes' = <<>>
    /\ only_first_page' = FALSE
    /\ item_section' = NoItemSection
    /\ wl_version' = NoneVal
    /\ rejected' = {}
    /\ UNCHANGED Client

SapisidCookie == [name |-> "SAPISID", value |-> "s1"]

\* No call is running.
Idle ==
    /\ wl_version = NoneVal
    /\ rejected = {}
    /\ op = "idle"
    /\ pc = "idle"
    /\ result = ""
    /\ trace = <<>>
    /\ served = <<>>
    /\ video_list_renderer = [kind |-> "nocontents", contents |-> <<>>]
    /\ continuation = NoneVal
    /\ itct = NoneVal
    /\ playlist_id = ""
    /\ cache_values = FALSE
    /\ video_ids = <<>>
    /\ params = NoParams
    /\ xsrf = NoneVal
    /\ tries = 0
    /\ time = 0
    /\ last_exception = ""
    /\ resp = NoResp
    /\ ids = {}
    /\ entries = <<>>
    /\ codes = <<>>
    /\ only_first_page = FALSE
    /\ item_section = NoItemSection

\* __init__: logged_in is the constructor's argument, _rsvi_cache is None.
Init ==
    /\ logged_in \in BOOLEAN
    /\ rsvi_cache = NoneVal
    /\ cj = <<SapisidCookie>>
    /\ clock = 0
    /\ issued = {}
    /\ Idle

Next ==
    \/ CallGetPlaylistInfo
    \/ PlaylistFirstPage
    \/ PlaylistNextPage
    \/ RemoveVideoIdFromPlaylist
    \/ CallClearPlaylist
    \/ CallClearWatchLater
    \/ ClearPlaylistCollect
    \/ ClearPlaylistRemove
    \/ CallGetHistoryInfo
    \/ HistoryFirstPage
    \/ HistoryAttempt
    \/ HistoryProcess
    \/ CallRemoveVideoIdsFromHistory
    \/ RemoveHistoryCollect
    \/ RemoveHistoryDelete
    \/ CallCommunityHistory
    \/ CommunityFirstPage
    \/ CommunityNextPage
    \/ ClearWatchHistory
    \/ ToggleSearchHistory
    \/ ToggleWatchHistory
    \/ DeleteCommunityEntry
    \/ ClearSearchHistory
    \/ Reset

Spec == Init /\ [][Next]_vars

\* ------------------------------------------- the authorization header alone
\* The cookies a jar may hold.
Cookies ==
    {SapisidCookie, [name |-> "__Secure-3PAPISID", value |-> "s2"],
     [name |-> "PREF", value |-> "s3"]}
Jars == SeqUpTo(Cookies, MaxCookies)

\* The value of the session cookie of a jar: that of the cookie with one of the
\* two names that comes first, "" when the jar has none.
SessionCookieValue(jar) ==
    LET found == {i \in DOMAIN jar : jar[i].name \in {"SAPISID", "__Secure-3PAPISID"}} IN
    IF found = {} THEN ""
    ELSE jar[CHOOSE i \in found : \A j \in found : i <= j].value

NotAuth == <<logged_in, rsvi_cache, Server, op, pc, result, trace, Frames, playlist_id,
             cache_values>>

\* A second passes.
Tick ==
    /\ clock < MaxClock
    /\ clock' = clock + 1
    /\ UNCHANGED <<cj, issued, NotAuth>>

\* The session replaces the cookies of the jar.
SetCookies ==
    /\ \E jar \in Jars \ {cj} : cj' = jar
    /\ UNCHANGED <<clock, issued, NotAuth>>

\* _authorization_sapisidhash_header()
ComputeAuthorizationHeader ==
    /\ Cardinality(issued) < MaxCalls
    /\ issued' = issued \cup {[now |-> clock, secret |-> SessionCookieValue(cj),
                               header |-> AuthorizationHeader(clock, cj)]}
    /\ UNCHANGED <<cj, clock, NotAuth>>

InitAuth ==
    /\ logged_in = TRUE
    /\ rsvi_cache = NoneVal
    /\ cj \in Jars
    /\ clock = 0
    /\ issued = {}
    /\ Idle

NextAuth ==
    \/ Tick
    \/ SetCookies
    \/ ComputeAuthorizationHeader

SpecAuth == InitAuth /\ [][NextAuth]_vars

\* ======================================================================
\* The claims
\* ======================================================================
WalkerUrls == {"playlist", "history", "community", "browse_ajax"}
HistoryOps == {"get_history_info", "remove_video_ids_from_history"}

IsReq(ev, url) == ev.e = "req" /\ ev.url = url
\* A page of a walk has arrived.
IsPage(ev) == ev.e = "resp" /\ ev.url \in WalkerUrls
PageIndexes == {i \in DOMAIN trace : IsPage(trace[i])}
LastPageIndex == LET p == PageIndexes IN CHOOSE i \in p : \A j \in p : j <= i

\* The generator is at a place from which it issues a further request.
WalkerGoesOn == pc \in {"pl_loop", "hi_retry", "co_loop"}

C2_ErrorReachesCaller ==
    (op = "get_history_info" /\ tries = MaxTries /\ pc \in {"done", "raised"})
        => (pc = "raised" /\ result = "HTTPError")

\* C2 as amended: when all 5 attempts fail, get_history_info logs the last
\* error and the generator ends as at the end of the history: the caller sees
\* StopIteration, no exception.
C2_ErrorLoggedWalkEnds ==
    (op = "get_history_info" /\ tries = MaxTries /\ pc # "hi_after")
        => /\ pc = "done"
           /\ result = "StopIteration"
           /\ trace[Len(trace)] = Log("HTTPError")
           /\ trace[Len(trace) - 1] = Err("browse_ajax")

C2_Witness == op = "get_history_info" /\ tries = MaxTries /\ pc = "done"

RECURSIVE FailedAttemptsBefore(_, _)
\* The number of consecutive failed browse_ajax attempts (an optional sleep,
\* the request, its error) that end right before position i of t.
FailedAttemptsBefore(t, i) ==
    IF i > 2 /\ t[i - 1].e = "err" /\ t[i - 1].url = "browse_ajax"
             /\ IsReq(t[i - 2], "browse_ajax")
    THEN 1 + FailedAttemptsBefore(t, IF i > 3 /\ t[i - 3].e = "sleep" THEN i - 3 ELSE i - 2)
    ELSE 0

\* C3: a history continuation page gets at most 5 attempts; nothing is slept
\* before the first, exactly 2^n seconds are slept between the n-th failure
\* (n = 1..4) and the next attempt, and nothing follows the 5th failure.
C3_BackoffSchedule ==
    /\ FailedAttemptsBefore(trace, Len(trace) + 1) <= 5
    /\ \A i \in DOMAIN trace :
        IF trace[i].e = "sleep"
        THEN LET n == FailedAttemptsBefore(trace, i) IN
             /\ n \in 1..4
             /\ trace[i].tok = 2 ^ n
             /\ i < Len(trace)
             /\ IsReq(trace[i + 1], "browse_ajax")
        ELSE IsReq(trace[i], "browse_ajax") => FailedAttemptsBefore(trace, i) = 0

\* Five failed attempts with the four sleeps between them.
C3_Witness ==
    /\ op = "get_history_info"
    /\ tries = MaxTries
    /\ Len(SelectEv(trace, "sleep")) = 4
    /\ FailedAttemptsBefore(trace, Len(trace) + 1) = 5

PagesBefore(i) == {j \in PageIndexes : j < i}
LatestPageBefore(i) == CHOOSE j \in PagesBefore(i) : \A k \in PagesBefore(i) : k <= j

\* C4: in get_playlist_info every follow-up request carries the continuation
\* token and the click-tracking value of the most recently received page, and
\* no token is requested twice in one walk.
C4_FollowsLatestToken ==
    op = "get_playlist_info" =>
        \A i \in DOMAIN trace :
            IsReq(trace[i], "browse_ajax") =>
                /\ trace[i].tok = trace[LatestPageBefore(i)].tok
                /\ trace[i].itct = trace[LatestPageBefore(i)].itct
                /\ \A j \in 1..(i - 1) :
                    IsReq(trace[j], "browse_ajax") => trace[j].tok # trace[i].tok

\* C5: the header is 'SAPISIDHASH {timestamp}_{digest}' with digest the SHA-1 of
\* '{timestamp} {secret} https://www.youtube.com' for the one timestamp read
\* and the jar's session cookie value, so two calls with the same timestamp
\* and the same cookie value give the same header.
C5_HeaderIsFunctionOfInputs ==
    /\ \A c \in issued :
        IF c.secret = "" THEN c.header = "AssertionError"
        ELSE c.header = "SAPISIDHASH " \o ToString(c.now) \o "_"
                \o Sha1Hex(ToString(c.now) \o " " \o c.secret \o " https://www.youtube.com")
    /\ \A c, d \in issued :
        (c.now = d.now /\ c.secret = d.secret) => c.header = d.header

\* Two headers computed for one cookie value at two times.
C5_Witness ==
    \E c, d \in issued :
        /\ c.secret = d.secret
        /\ c.secret # ""
        /\ c.now < d.now
        /\ c.header # d.header

PublicOps ==
    {"remove_video_id_from_playlist", "clear_watch_history", "get_playlist_info",
     "clear_playlist", "clear_watch_later", "get_history_info",
     "remove_video_ids_from_history", "toggle_search_history", "toggle_watch_history",
     "community_history", "delete_community_entry", "clear_search_history"}

\* C6: a public operation called while logged_in is false raises
\* AuthenticationError (a generator on its first iteration), makes no request
\* and changes nothing of the client.
C6_LoggedOutCallsRaise ==
    /\ op \in PublicOps \cup {"idle"}
    /\ ~logged_in =>
        /\ trace = <<>>
        /\ rsvi_cache = NoneVal
        /\ cj = <<SapisidCookie>>
        /\ \/ pc \in {"idle", "pl_start", "hi_start", "co_start"}
           \/ pc = "raised" /\ result = "AuthenticationError"

C6_Witness ==
    ~logged_in /\ op = "community_history" /\ pc = "raised"
        /\ result = "AuthenticationError"

RECURSIVE VideoIdsOfPages(_)
\* The ids of the videos of the pages, in page order and in within-page order.
VideoIdsOfPages(pages) ==
    IF pages = <<>> THEN <<>>
    ELSE LET IsVideoItem(x) == x.kind = "playlistVideoRenderer"
             videos == SelectSeq(Head(pages), IsVideoItem)
         IN [i \in 1..Len(videos) |-> videos[i].videoId] \o VideoIdsOfPages(Tail(pages))

\* The part of a page that precedes its first continuation item.
BeforeContinuation(items) ==
    LET stops == {i \in DOMAIN items : items[i].kind = "continuationItemRenderer"}
        first == IF stops = {} THEN Len(items) + 1
                 ELSE CHOOSE i \in stops : \A j \in stops : i <= j
    IN SubSeq(items, 1, first - 1)
PagesBeforeContinuation(pages) == [k \in DOMAIN pages |-> BeforeContinuation(pages[k])]

\* No removal request precedes the end of the enumeration, and every removal
\* request names the playlist being cleared.
RemovalsFollowEnumeration ==
    \A i \in DOMAIN trace :
        IsReq(trace[i], "edit_playlist") =>
            /\ trace[i].pl = playlist_id
            /\ \A j \in (i + 1)..Len(trace) :
                /\ trace[j].e # "yield"
                /\ ~IsReq(trace[j], "browse_ajax")
                /\ ~IsReq(trace[j], "playlist")
RemovedIds ==
    LET IsRemoval(x) == IsReq(x, "edit_playlist")
        removals == SelectSeq(trace, IsRemoval)
    IN [i \in 1..Len(removals) |-> removals[i].val]

RECURSIVE HistoryEntriesOf(_)
\* The entries of the history pages received, in page order.
HistoryEntriesOf(pages) ==
    IF pages = <<>> THEN <<>> ELSE Head(pages) \o HistoryEntriesOf(Tail(pages))

DeletedIds ==
    LET IsDeletion(x) == IsReq(x, "service_ajax")
        deletions == SelectSeq(trace, IsDeletion)
    IN [i \in 1..Len(deletions) |-> deletions[i].val]
DeletionAnswers ==
    LET IsAnswer(x) == x.e = "resp" /\ x.url = "service_ajax" IN SelectSeq(trace, IsAnswer)

\* C8: remove_video_ids_from_history(ids) returns False without a request when
\* ids is empty; otherwise it posts one deletion per entry of the history
\* pages it received whose videoId is in ids, never stopping at a deletion
\* answered with another code than SUCCESS, and returns True exactly when an
\* entry matched and every answer was SUCCESS.
C8_DeletesMatchingEntries ==
    (op = "remove_video_ids_from_history" /\ logged_in) =>
        /\ ids = {} => (trace = <<>> /\ pc = "done" /\ result = "FALSE")
        /\ (pc = "done" /\ ids # {}) =>
            LET Wanted(v) == v \in ids
                matches == SelectSeq(HistoryEntriesOf(served), Wanted)
            IN
            /\ DeletedIds = matches
            /\ Len(DeletionAnswers) = Len(matches)
            /\ result = "TRUE" <=>
                (matches # <<>>
                    /\ \A i \in 1..Len(DeletionAnswers) : DeletionAnswers[i].val = "SUCCESS")

\* What holds of the deletions whatever the walk did: one per entry that
\* get_history_info yielded and whose videoId is in ids, in order, and True
\* returned exactly when there was one and every answer was SUCCESS.
DeletesYieldedMatches ==
    (op = "remove_video_ids_from_history" /\ logged_in) =>
        LET IsMatch(x) == x.e = "yield" /\ x.val \in ids
            matches == SelectSeq(trace, IsMatch)
        IN
        /\ Len(DeletedIds) <= Len(matches)
        /\ \A i \in 1..Len(DeletedIds) : DeletedIds[i] = matches[i].val
        /\ (pc = "done" /\ ids # {}) =>
            /\ Len(DeletedIds) = Len(matches)
            /\ Len(DeletionAnswers) = Len(matches)
            /\ result = "TRUE" <=>
                (matches # <<>>
                    /\ \A i \in 1..Len(DeletionAnswers) : DeletionAnswers[i].val = "SUCCESS")

\* C9 as stated: a request's HTTP failure is retried with backoff instead of
\* reaching the caller on the first failure: an HTTPError that reaches the
\* caller follows an earlier failure of that request and a sleep.
C9_EveryFailureRetried ==
    result = "HTTPError" =>
        \E i \in 1..(Len(trace) - 1) :
            /\ trace[i].e = "err"
            /\ trace[i].url = trace[Len(trace)].url
            /\ trace[i + 1].e = "sleep"

\* C9 as amended: only the continuation request of get_history_info is inside
\* the retry loop: its failure is followed by the backoff and the same request
\* again (or, the fifth time, by the log line) and never reaches the caller;
\* the failure of any other request is the first of that request and reaches
\* the caller as HTTPError.
C9_OnlyHistoryContinuationRetried ==
    \A i \in DOMAIN trace :
        trace[i].e = "err" =>
            IF op \in HistoryOps /\ trace[i].url = "browse_ajax"
            THEN LET n == FailedAttemptsBefore(trace, i + 1) IN
                 IF n < 5
                 THEN \/ i = Len(trace) /\ pc = "hi_retry"
                      \/ /\ i + 2 <= Len(trace)
                         /\ trace[i + 1] = Sleep(2 ^ n)
                         /\ trace[i + 2] = trace[i - 1]
                 ELSE \/ i = Len(trace) /\ pc = "hi_after"
                      \/ i < Len(trace) /\ trace[i + 1] = Log("HTTPError")
            ELSE /\ i = Len(trace)
                 /\ result = "HTTPError"
                 /\ pc \in {"raised", "pl_raised", "hi_raised"}
                 /\ IsReq(trace[i - 1], trace[i].url)
                 /\ i > 2 => trace[i - 2].e # "err"

\* A history continuation retried after a backoff, and later in the same call
\* a deletion whose first failure reached the caller.
C9_Witness ==
    /\ op = "remove_video_ids_from_history"
    /\ pc = "raised"
    /\ result = "HTTPError"
    /\ trace[Len(trace)].url = "service_ajax"
    /\ SelectEv(trace, "sleep") # <<>>

\* C10: a continuation page of the history obtained on attempt 2..5 is
\* processed like one obtained on the first attempt: its entries are yielded
\* right after it arrives and the failures before it end nothing.
C10_RetriedPageProcessed ==
    (op = "get_history_info" /\ pc \in {"done", "raised"}
        /\ tries \in 1..(MaxTries - 1) /\ resp.kind = "list") =>
        LET i == LastPageIndex
            y == HistoryScan(resp.sections, FALSE).yields
        IN
        /\ Len(trace) >= i + Len(y)
        /\ SubSeq(trace, i + 1, i + Len(y)) = y
        /\ SelectEv(trace, "log") # <<Log("HTTPError")>>

\* A page of a chain: it has items, and a continuation item only as its last.
IsChainPage(items) ==
    /\ items # <<>>
    /\ \A i \in 1..(Len(items) - 1) : items[i].kind # "continuationItemRenderer"
EndsChain(items) == items[Len(items)].kind # "continuationItemRenderer"

\* C11: on a playlist whose pages form a finite chain, answered with the same
\* page for the same token, get_playlist_info requests each continuation page
\* exactly once, in chain order (the i-th request asks for page i + 1), and
\* has finished once the page that ends the chain has arrived.
C11_ChainWalkedOnce ==
    (op = "get_playlist_info" /\ \A k \in DOMAIN served : IsChainPage(served[k])) =>
        LET IsBrowse(x) == IsReq(x, "browse_ajax")
            requests == SelectSeq(trace, IsBrowse)
        IN
        /\ \A i \in 1..Len(requests) : requests[i].tok = i + 1
        /\ (served # <<>> /\ EndsChain(served[Len(served)])) => pc = "done"

C13_YieldsVideosBeforeContinuation ==
    [][op' \in {"get_playlist_info"} \cup ClearOps =>
        \A i \in (Len(trace) + 1)..Len(trace') :
            /\ trace'[i].e = "yield" =>
                i > 1 /\ (trace'[i - 1].e = "yield" \/ IsPage(trace'[i - 1]))
            /\ IsPage(trace'[i]) =>
                LET page == IF trace'[i].url = "playlist" THEN served'[1]
                            ELSE served'[trace'[i - 1].tok]
                    expected == VideoIdsOfPages(<<BeforeContinuation(page)>>)
                    n == Len(expected)
                IN
                /\ Len(trace') = i + n
                /\ \A k \in 1..n :
                    trace'[i + k].e = "yield" /\ trace'[i + k].val = expected[k]]_vars

\* A walk of two pages that yielded three videos.
C13_Witness ==
    /\ op = "get_playlist_info"
    /\ pc = "done"
    /\ Len(served) = 2
    /\ LET IsYield(x) == x.e = "yield" IN Len(SelectSeq(trace, IsYield)) = 3

\* A step that runs the body of remove_video_id_from_playlist past its login
\* check: a direct call, or one made by clear_playlist (cache_values false).
IsRemoveCall ==
    \/ op = "idle" /\ op' = "remove_video_id_from_playlist" /\ logged_in
    \/ op \in ClearOps /\ pc = "cp_remove" /\ video_ids # <<>>
CallCacheValues == IF op = "idle" THEN cache_values' ELSE FALSE
CallEvents == SubSeq(trace', Len(trace) + 1, Len(trace'))
Downloaded == \E i \in DOMAIN CallEvents : IsReq(CallEvents[i], "watch_later")
DownloadFailed ==
    \E i \in DOMAIN CallEvents :
        CallEvents[i].e = "err" /\ CallEvents[i].url = "watch_later"

\* C14 as stated: a call with cache_values false downloads the Watch Later
\* page and leaves _rsvi_cache unchanged; a call with cache_values true
\* downloads only if _rsvi_cache is empty, leaves it populated and does not
\* replace populated values.
C14_CacheAlwaysPopulated ==
    [][IsRemoveCall =>
        IF CallCacheValues
        THEN /\ Downloaded => rsvi_cache = NoneVal
             /\ rsvi_cache' # NoneVal
             /\ rsvi_cache # NoneVal => rsvi_cache' = rsvi_cache
        ELSE Downloaded /\ rsvi_cache' = rsvi_cache]_vars

\* C14: a call with cache_values false downloads the Watch Later page and
\* leaves _rsvi_cache unchanged; a call with cache_values true downloads
\* exactly when _rsvi_cache is empty, leaves it populated unless that download
\* raised, and does not replace populated values. No other step changes
\* _rsvi_cache, so a populated cache stays as it is through any sequence of
\* calls with cache_values true and the page is not requested again.
C14_CachePopulatedUnlessDownloadFails ==
    [][/\ rsvi_cache' # rsvi_cache =>
            IsRemoveCall /\ CallCacheValues /\ rsvi_cache = NoneVal
       /\ IsRemoveCall =>
            IF CallCacheValues
            THEN /\ Downloaded <=> rsvi_cache = NoneVal
                 /\ ~DownloadFailed => rsvi_cache' # NoneVal
                 /\ DownloadFailed => rsvi_cache' = NoneVal
            ELSE Downloaded /\ rsvi_cache' = rsvi_cache]_vars

\* A call with cache_values true answered from a cache filled by an earlier
\* call, while the server has another version of the page by now.
C14_Witness ==
    /\ op = "remove_video_id_from_playlist"
    /\ pc = "done"
    /\ cache_values
    /\ rsvi_cache # NoneVal
    /\ rsvi_cache # wl_version
    /\ \A i \in DOMAIN trace : ~IsReq(trace[i], "watch_later")

====
